---- MODULE Spec2Model ----
(***************************************************************************)
(* A model of the autoemulate orchestration layer:                         *)
(*   - AutoEmulate (compare.py): setup / compare and the cross-validation  *)
(*     loop of _score_model_with_cv, writing scores_df and                 *)
(*     predictions_data;                                                   *)
(*   - ModelRegistry (model_registry.py): register_model / get_models;     *)
(*   - HyperparamSearch (hyperparam_search.py): search / check_param_grid. *)
(* The three objects do not share state; each has its own specification   *)
(* (Spec, SpecRegistry, SpecSearch) over its own variables.                *)
(***************************************************************************)
EXTENDS Integers, Sequences, FiniteSets, TLC

VARIABLES
    \* ---- AutoEmulate (compare.py) ----
    X, y,               \* self.X, self.y
    scores_df,          \* self.scores_df: sequence of rows
    is_set_up,          \* self.is_set_up
    predictions_data,   \* self.predictions_data: model name -> fold -> entry
    models,             \* self.models: sequence of estimator objects
    metrics,            \* self.metrics
    cv,                 \* self.cv: number of folds of the splitter (0: not set)
    pc,                 \* position of the running compare() ("idle": no call running)
    mi,                 \* index in self.models of the model being scored
    fold,               \* fold index of the enumerate() loop
    fold_scores,        \* the scores dict built by _evaluate_model
    call,               \* the last public call and its arguments
    raised,             \* the exception the last public call ended with
    ncompare,           \* number of compare() calls started
    out,                \* what the last public call printed
    calls,              \* the calls made on the estimator in the current fold
    \* ---- ModelRegistry (model_registry.py) ----
    reg_models,         \* self.models: insertion-ordered dict, as a sequence of <<name, class>>
    core_model_names,   \* self.core_model_names
    reg_ret,            \* outcome of the last get_models call
    \* ---- HyperparamSearch (hyperparam_search.py) ----
    best_params,        \* self.best_params
    logger,             \* self.logger (FALSE: None)
    model_params,       \* hyperparameters of the estimator passed to search()
    log,                \* records written to the logger by the last search() call
    search_ret,         \* outcome of the last search() call
    \* ---- concurrent workers running _score_model_with_cv ----
    wpc,                \* position of each worker
    wfold,              \* each worker's fold of the enumerate() loop
    wscores,            \* each worker's fold_scores
    wk,                 \* each worker's position in the loop over fold_scores
    wtmp                \* the table each worker read for pd.concat

aeVars  == <<X, y, scores_df, is_set_up, predictions_data, models, metrics, cv,
             pc, mi, fold, fold_scores, call, raised, ncompare, out, calls>>
regVars == <<reg_models, core_model_names, reg_ret>>
hsVars  == <<best_params, logger, model_params, log, search_ret>>
cwVars  == <<wpc, wfold, wscores, wk, wtmp>>
vars    == <<aeVars, regVars, hsVars, cwVars>>

(***************************************************************************)
(* Bounds                                                                  *)
(***************************************************************************)
NumModels   == 2    \* how many entries of MODEL_REGISTRY are used
Folds       == 2    \* the folds argument of setup()
MaxCompares == 2    \* compare() calls per behaviour
MaxCore     == 3    \* length of core_model_names
MaxSubset   == 2    \* length of a model_subset list
MaxGridKeys == 2    \* number of keys of a custom param_grid

(***************************************************************************)
(* AutoEmulate                                                             *)
(***************************************************************************)
\* The keys of MODEL_REGISTRY in insertion order.
MODEL_REGISTRY_KEYS ==
    <<"GaussianProcessSk", "NeuralNetSk", "RandomForest",
      "GradientBoosting", "SupportVectorMachines", "SecondOrderPolynomial">>

MODEL_REGISTRY == SubSeq(MODEL_REGISTRY_KEYS, 1, NumModels)

\* The keys of METRIC_REGISTRY.
METRIC_REGISTRY == <<"rmse", "r2">>

\* Arrays are abstracted to their sample count and the kind of values they hold.
None == [n |-> 0, kind |-> "None"]

Arrays ==
    { [n |-> Folds,     kind |-> "finite"],
      [n |-> Folds,     kind |-> "nan"],
      [n |-> Folds + 1, kind |-> "inf"] }

\* np.isnan(a).any()
isnan_any(a) == a.kind = "nan"

\* The fitted state of an estimator: the compare() run and the fold whose
\* training rows it was last fitted on.
NotFitted == [run |-> 0, fold |-> -1]

NoError == [kind |-> "none", model |-> "", fold |-> -1, msg |-> "", names |-> <<>>]

Error(k, m, f) == [kind |-> k, model |-> m, fold |-> f, msg |-> "", names |-> <<>>]

\* The model argument of a query called without one.
NoModel == "None"

NoCall == [op |-> "none", X |-> None, y |-> None, model |-> NoModel]

\* type(model).__name__
model_name == models[mi].name

\* No get_models call has returned since the registry last changed.
NoReturn == [status |-> "none", subset |-> [type |-> "None", value |-> <<>>],
             value |-> <<>>]

\* The hyperparameters of the estimator under search (the "model" step of the
\* pipeline) and their values at construction.
ModelParamNames == {"kernel", "degree"}

DefaultParams == [p \in ModelParamNames |-> 1]

NoSearch == [status |-> "none", cause |-> "none", exc |-> "none",
             fit_started |-> FALSE, param_grid |-> [type |-> "None", items |-> <<>>]]

InitAutoEmulate ==
    /\ X = None
    /\ y = None
    /\ scores_df = <<>>
    /\ is_set_up = FALSE
    /\ predictions_data = <<>>
    /\ models = <<>>
    /\ metrics = <<>>
    /\ cv = 0
    /\ pc = "idle"
    /\ mi = 0
    /\ fold = 0
    /\ fold_scores = <<>>
    /\ call = NoCall
    /\ raised = NoError
    /\ ncompare = 0
    /\ out = <<>>
    /\ calls = <<>>

InitRegistry ==
    /\ reg_models = <<>>
    /\ core_model_names = <<>>
    /\ reg_ret = NoReturn

\* HyperparamSearch.__init__ with the given logger argument (FALSE: None).
InitSearch(lg) ==
    /\ best_params = <<>>
    /\ logger = lg
    /\ model_params = DefaultParams
    /\ log = <<>>
    /\ search_ret = NoSearch

\* One worker per model of self.models.
Workers == 1..NumModels

\* No worker has started.
InitWorkers ==
    /\ wpc = [w \in Workers |-> "score_fold"]
    /\ wfold = [w \in Workers |-> 0]
    /\ wscores = [w \in Workers |-> <<>>]
    /\ wk = [w \in Workers |-> 1]
    /\ wtmp = [w \in Workers |-> <<>>]

Init == InitAutoEmulate /\ InitRegistry /\ InitSearch(TRUE) /\ InitWorkers

\* _check_data: TRUE when it raises ValueError.
check_data(Xa, ya) ==
    \/ Xa.n # ya.n
    \/ isnan_any(Xa) \/ isnan_any(ya)

\* Setup with _preprocess_data run before _check_data: the arrays are stored
\* before validation rejects them.
SetupPreprocessFirst(Xa, ya) ==
    /\ pc = "idle"
    /\ call' = [op |-> "setup", X |-> Xa, y |-> ya, model |-> NoModel]
    /\ out' = <<>>
    /\ X' = Xa
    /\ y' = ya
    /\ IF check_data(Xa, ya)
       THEN /\ raised' = Error("ValueError", "", -1)
            /\ UNCHANGED <<models, metrics, cv, is_set_up>>
       ELSE /\ models' = [i \in 1..Len(MODEL_REGISTRY) |->
                            [name |-> MODEL_REGISTRY[i], fitted |-> NotFitted]]
            /\ metrics' = METRIC_REGISTRY
            /\ cv' = Folds
            /\ is_set_up' = TRUE
            /\ raised' = NoError
    /\ UNCHANGED <<scores_df, predictions_data, pc, mi, fold,
                   fold_scores, ncompare, calls>>
    /\ UNCHANGED <<regVars, hsVars, cwVars>>

\* setup(X, y, fold_strategy="kfold", folds=Folds)
Setup(Xa, ya) ==
    /\ pc = "idle"
    /\ call' = [op |-> "setup", X |-> Xa, y |-> ya, model |-> NoModel]
    /\ out' = <<>>
    /\ IF check_data(Xa, ya)
       THEN /\ raised' = Error("ValueError", "", -1)
            /\ UNCHANGED <<X, y, models, metrics, cv, is_set_up>>
       ELSE /\ X' = Xa
            /\ y' = ya
            /\ models' = [i \in 1..Len(MODEL_REGISTRY) |->
                            [name |-> MODEL_REGISTRY[i], fitted |-> NotFitted]]
            /\ metrics' = METRIC_REGISTRY
            /\ cv' = Folds
            /\ is_set_up' = TRUE
            /\ raised' = NoError
    /\ UNCHANGED <<scores_df, predictions_data, pc, mi, fold,
                   fold_scores, ncompare, calls>>
    /\ UNCHANGED <<regVars, hsVars, cwVars>>

\* compare() that returns without raising when setup() has not been run.
CompareCallSilent ==
    /\ pc = "idle"
    /\ call' = [op |-> "compare", X |-> None, y |-> None, model |-> NoModel]
    /\ out' = <<>>
    /\ IF ~is_set_up
       THEN /\ raised' = NoError
            /\ UNCHANGED <<pc, mi, ncompare>>
       ELSE /\ ncompare < MaxCompares
            /\ ncompare' = ncompare + 1
            /\ raised' = NoError
            /\ mi' = 1
            /\ pc' = "score_model"
    /\ UNCHANGED <<X, y, scores_df, is_set_up, predictions_data, models, metrics,
                   cv, fold, fold_scores, calls>>
    /\ UNCHANGED <<regVars, hsVars, cwVars>>

\* compare(): the is_set_up check and the start of the loop over self.models.
CompareCall ==
    /\ pc = "idle"
    /\ call' = [op |-> "compare", X |-> None, y |-> None, model |-> NoModel]
    /\ out' = <<>>
    /\ IF ~is_set_up
       THEN /\ raised' = Error("RuntimeError", "", -1)
            /\ UNCHANGED <<pc, mi, ncompare>>
       ELSE /\ ncompare < MaxCompares
            /\ ncompare' = ncompare + 1
            /\ raised' = NoError
            /\ mi' = 1
            /\ pc' = "score_model"
    /\ UNCHANGED <<X, y, scores_df, is_set_up, predictions_data, models, metrics,
                   cv, fold, fold_scores, calls>>
    /\ UNCHANGED <<regVars, hsVars, cwVars>>

\* An exception leaving _score_model_with_cv: neither it nor compare() has a
\* handler, so the call ends with the exception and the frames' locals are gone.
Propagate(kind) ==
    /\ raised' = Error(kind, model_name, fold)
    /\ pc' = "idle"
    /\ mi' = 0
    /\ fold' = 0
    /\ fold_scores' = <<>>
    /\ calls' = <<>>

\* An entry to _score_model_with_cv that re-creates the model's dict of
\* predictions_data on every call, dropping the entries of an earlier run.
ScoreModelEnterResetting ==
    /\ pc = "score_model"
    /\ predictions_data' =
         IF model_name \in DOMAIN predictions_data
         THEN [predictions_data EXCEPT ![model_name] = <<>>]
         ELSE (model_name :> <<>>) @@ predictions_data
    /\ fold' = 0
    /\ pc' = "fit"
    /\ UNCHANGED <<X, y, scores_df, is_set_up, models, metrics, cv, mi,
                   fold_scores, call, out, raised, ncompare, calls>>
    /\ UNCHANGED <<regVars, hsVars, cwVars>>

\* _score_model_with_cv, up to the first fold: the per-model dict of
\* predictions_data is created when missing and the enumeration of cv.split
\* starts.
ScoreModelEnter ==
    /\ pc = "score_model"
    /\ predictions_data' =
         IF model_name \in DOMAIN predictions_data
         THEN predictions_data
         ELSE (model_name :> <<>>) @@ predictions_data
    /\ fold' = 0
    /\ pc' = "fit"
    /\ UNCHANGED <<X, y, scores_df, is_set_up, models, metrics, cv, mi,
                   fold_scores, call, out, raised, ncompare, calls>>
    /\ UNCHANGED <<regVars, hsVars, cwVars>>

\* cv.split(self.X): the rows held out by fold f. The splitter is seeded, so
\* every enumeration yields the same partition.
TestSplit(f) == [fold |-> f]

\* _train_model: model.fit(X_train, y_train) fits the object held in self.models
\* and returns it.
TrainModel ==
    /\ pc = "fit"
    /\ models' = [models EXCEPT ![mi].fitted = [run |-> ncompare, fold |-> fold]]
    /\ fold_scores' = <<>>
    /\ calls' = <<"fit">>
    /\ pc' = "eval"
    /\ UNCHANGED <<X, y, scores_df, is_set_up, predictions_data, metrics, cv, mi,
                   fold, call, out, raised, ncompare>>
    /\ UNCHANGED <<regVars, hsVars, cwVars>>

\* model.fit raises.
TrainModelRaises ==
    /\ pc = "fit"
    /\ Propagate("FitError")
    /\ UNCHANGED <<X, y, scores_df, is_set_up, predictions_data, models, metrics,
                   cv, call, out, ncompare>>
    /\ UNCHANGED <<regVars, hsVars, cwVars>>

\* trained_model.predict(X_test)
Predict(est, test) == [model |-> est.name, fitted |-> est.fitted, test |-> test]

\* METRIC_REGISTRY[metric](y_true, y_pred): a fixed function of its arguments.
Metric(metric, y_true, y_pred) ==
    IF metric = "r2"
    THEN (y_pred.fitted.run + y_pred.fitted.fold) % 3
    ELSE y_pred.fitted.run + y_true.fold

\* trained_model.score(X, y, metric=metric_func)
Score(est, test, metric) == Metric(metric, test, Predict(est, test))

\* _evaluate_model: one iteration of the loop over self.metrics.
EvaluateModel ==
    /\ pc = "eval"
    /\ Len(fold_scores) < Len(metrics)
    /\ LET metric == metrics[Len(fold_scores) + 1]
           score  == Score(models[mi], TestSplit(fold), metric)
       IN  fold_scores' = Append(fold_scores, [metric |-> metric, score |-> score])
    /\ calls' = Append(calls, "score")
    /\ pc' = IF Len(fold_scores) + 1 = Len(metrics) THEN "predict" ELSE "eval"
    /\ UNCHANGED <<X, y, scores_df, is_set_up, predictions_data, models, metrics,
                   cv, mi, fold, call, out, raised, ncompare>>
    /\ UNCHANGED <<regVars, hsVars, cwVars>>

\* A metric failure whose unwinding re-creates the score table empty.
EvaluateModelRaisesResetting ==
    /\ pc = "eval"
    /\ Len(fold_scores) < Len(metrics)
    /\ Propagate("MetricError")
    /\ scores_df' = <<>>
    /\ UNCHANGED <<X, y, is_set_up, predictions_data, models, metrics,
                   cv, call, out, ncompare>>
    /\ UNCHANGED <<regVars, hsVars, cwVars>>

\* trained_model.score raises inside _evaluate_model.
EvaluateModelRaises ==
    /\ pc = "eval"
    /\ Len(fold_scores) < Len(metrics)
    /\ Propagate("MetricError")
    /\ UNCHANGED <<X, y, scores_df, is_set_up, predictions_data, models, metrics,
                   cv, call, out, ncompare>>
    /\ UNCHANGED <<regVars, hsVars, cwVars>>

\* A write to predictions_data that keeps the entry a fold already has.
StorePredictionsKeepFirst ==
    /\ pc = "predict"
    /\ LET y_test == TestSplit(fold)
           y_pred == Predict(models[mi], y_test)
       IN  predictions_data' =
             [predictions_data EXCEPT
                ![model_name] = @ @@ (fold :> [y_true |-> y_test, y_pred |-> y_pred])]
    /\ calls' = Append(calls, "predict")
    /\ pc' = "append"
    /\ UNCHANGED <<X, y, scores_df, is_set_up, models, metrics, cv, mi,
                   fold, fold_scores, call, out, raised, ncompare>>
    /\ UNCHANGED <<regVars, hsVars, cwVars>>

\* y_pred = trained_model.predict(X_test) and the write to predictions_data.
StorePredictions ==
    /\ pc = "predict"
    /\ LET y_test == TestSplit(fold)
           y_pred == Predict(models[mi], y_test)
       IN  predictions_data' =
             [predictions_data EXCEPT
                ![model_name] = (fold :> [y_true |-> y_test, y_pred |-> y_pred]) @@ @]
    /\ calls' = Append(calls, "predict")
    /\ pc' = "append"
    /\ UNCHANGED <<X, y, scores_df, is_set_up, models, metrics, cv, mi,
                   fold, fold_scores, call, out, raised, ncompare>>
    /\ UNCHANGED <<regVars, hsVars, cwVars>>

\* trained_model.predict raises.
PredictRaises ==
    /\ pc = "predict"
    /\ Propagate("PredictError")
    /\ UNCHANGED <<X, y, scores_df, is_set_up, predictions_data, models, metrics,
                   cv, call, out, ncompare>>
    /\ UNCHANGED <<regVars, hsVars, cwVars>>

\* Rows that all carry fold 0 instead of the index of the enumerate() loop.
NewRowsFoldZero(name, f, scores) ==
    [i \in 1..Len(scores) |->
        [model |-> name, metric |-> scores[i].metric, fold |-> 0,
         score |-> scores[i].score]]

\* The rows the loop over fold_scores.items() concatenates to the table.
NewRows(name, f, scores) ==
    [i \in 1..Len(scores) |->
        [model |-> name, metric |-> scores[i].metric, fold |-> f,
         score |-> scores[i].score]]

\* The loop appending one row per metric, then the next fold, the next model,
\* or the return of compare().
AppendScores ==
    /\ pc = "append"
    /\ scores_df' = scores_df \o NewRows(model_name, fold, fold_scores)
    /\ fold_scores' = <<>>
    /\ calls' = <<>>
    /\ IF fold + 1 < cv
       THEN /\ fold' = fold + 1
            /\ pc' = "fit"
            /\ UNCHANGED mi
       ELSE IF mi < Len(models)
       THEN /\ mi' = mi + 1
            /\ pc' = "score_model"
            /\ fold' = 0
       ELSE /\ mi' = 0
            /\ pc' = "idle"
            /\ fold' = 0
    /\ UNCHANGED <<X, y, is_set_up, predictions_data, models, metrics, cv, call, out,
                   raised, ncompare>>
    /\ UNCHANGED <<regVars, hsVars, cwVars>>

\* get_model_name(model): the name of the estimator's class.
get_model_name(mod) == mod.name

\* The model arguments of the score queries: none, a model of MODEL_REGISTRY,
\* and a name no model has.
QueryModels == {NoModel, MODEL_REGISTRY[1], "InvalidModel"}

\* df[df["model"] == name]
RowsOfModel(df, name) == SelectSeq(df, LAMBDA r : r.model = name)

\* What a query prints: the header line; the table under it is not modelled.
Printed(header, name) == <<[header |-> header, model |-> name]>>

\* print_scores(model). Without a model the means are sorted by the "r2"
\* column, which exists only when the table has "r2" rows. With a model, the
\* table is filtered by the name and nothing checks the name against
\* self.models: for a name without rows the frame has no columns, and
\* folds.loc["Mean"] = ... either raises pandas' ValueError for a frame with no
\* defined columns or, where the pandas build accepts the assignment, the
\* header is printed over an empty table.
PrintScores(model) ==
    /\ pc = "idle"
    /\ call' = [op |-> "print_scores", X |-> None, y |-> None, model |-> model]
    /\ IF model = NoModel
       THEN IF \E i \in 1..Len(scores_df) : scores_df[i].metric = "r2"
            THEN /\ raised' = NoError
                 /\ out' = Printed("Average scores across all models:", NoModel)
            ELSE /\ raised' = Error("KeyError", "", -1)
                 /\ out' = <<>>
       ELSE IF RowsOfModel(scores_df, model) # <<>>
            THEN /\ raised' = NoError
                 /\ out' = Printed("Scores for {model} across all folds:", model)
            ELSE \/ /\ raised' = [Error("ValueError", "", -1) EXCEPT
                                    !.msg = "cannot set a frame with no defined columns"]
                    /\ out' = <<>>
                 \/ /\ raised' = NoError
                    /\ out' = Printed("Scores for {model} across all folds:", model)
    /\ UNCHANGED <<X, y, scores_df, is_set_up, predictions_data, models, metrics,
                   cv, pc, mi, fold, fold_scores, ncompare, calls>>
    /\ UNCHANGED <<regVars, hsVars, cwVars>>

\* The message of the ValueError of _print_cv_results; {model_names} is the
\* list carried in the names field of the error.
NotFoundMsg == "Model {model_name} not found. Available models are: {model_names}"

\* _print_cv_results(self.models, self.scores_df, model_name=name)
PrintCvResults(name) ==
    /\ pc = "idle"
    /\ call' = [op |-> "_print_cv_results", X |-> None, y |-> None, model |-> name]
    /\ LET model_names == [i \in 1..Len(models) |-> get_model_name(models[i])]
       IN  IF name # NoModel /\ name \notin {model_names[i] : i \in 1..Len(models)}
           THEN /\ raised' = [Error("ValueError", name, -1) EXCEPT
                                !.msg = NotFoundMsg,
                                !.names = model_names]
                /\ out' = <<>>
           ELSE /\ raised' = NoError
                /\ out' = IF name = NoModel
                          THEN Printed("Average scores across all models:", NoModel)
                          ELSE Printed("Scores for {model_name} across all folds:", name)
    /\ UNCHANGED <<X, y, scores_df, is_set_up, predictions_data, models, metrics,
                   cv, pc, mi, fold, fold_scores, ncompare, calls>>
    /\ UNCHANGED <<regVars, hsVars, cwVars>>

\* Series.idxmax over the rows I of df: the label of the first row that holds
\* the maximal score.
idxmax(df, I) ==
    CHOOSE i \in I :
        /\ \A j \in I : df[j].score <= df[i].score
        /\ \A j \in I : df[j].score = df[i].score => i <= j

\* plot_predictions(model=None): the best_folds dict, model -> fold of the row
\* idxmax selects among the model's "r2" rows.
best_folds(df) ==
    LET r2 == {i \in 1..Len(df) : df[i].metric = "r2"}
    IN  [m \in {df[i].model : i \in r2} |->
            df[idxmax(df, {i \in r2 : df[i].model = m})].fold]

(***************************************************************************)
(* Concurrent workers: the models of one compare() sweep are scored by one *)
(* worker each, every worker running the body of _score_model_with_cv on   *)
(* the shared object.                                                      *)
(***************************************************************************)
\* The object after setup(X, y) with valid data, at the point where compare()
\* hands the models to the workers.
InitConcurrent ==
    /\ X = [n |-> Folds, kind |-> "finite"]
    /\ y = [n |-> Folds, kind |-> "finite"]
    /\ scores_df = <<>>
    /\ is_set_up = TRUE
    /\ predictions_data = <<>>
    /\ models = [i \in 1..Len(MODEL_REGISTRY) |->
                    [name |-> MODEL_REGISTRY[i], fitted |-> NotFitted]]
    /\ metrics = METRIC_REGISTRY
    /\ cv = Folds
    /\ pc = "idle"
    /\ mi = 0
    /\ fold = 0
    /\ fold_scores = <<>>
    /\ call = [op |-> "compare", X |-> None, y |-> None, model |-> NoModel]
    /\ raised = NoError
    /\ ncompare = 1
    /\ out = <<>>
    /\ calls = <<>>
    /\ InitRegistry
    /\ InitSearch(TRUE)
    /\ InitWorkers

\* One fold of worker w up to the loop over fold_scores.items(): the split,
\* _train_model, _evaluate_model, predict and the write to predictions_data.
WorkerScoreFold(w) ==
    /\ wpc[w] = "score_fold"
    /\ LET name   == models[w].name
           fitted == [models[w] EXCEPT !.fitted = [run |-> ncompare, fold |-> wfold[w]]]
           y_test == TestSplit(wfold[w])
           pd     == IF name \in DOMAIN predictions_data
                     THEN predictions_data
                     ELSE (name :> <<>>) @@ predictions_data
       IN  /\ models' = [models EXCEPT ![w] = fitted]
           /\ wscores' = [wscores EXCEPT ![w] =
                 [k \in 1..Len(metrics) |->
                     [metric |-> metrics[k], score |-> Score(fitted, y_test, metrics[k])]]]
           /\ predictions_data' =
                 [pd EXCEPT ![name] =
                     (wfold[w] :> [y_true |-> y_test, y_pred |-> Predict(fitted, y_test)]) @@ @]
    /\ wk' = [wk EXCEPT ![w] = 1]
    /\ wpc' = [wpc EXCEPT ![w] = "concat"]
    /\ UNCHANGED <<X, y, scores_df, is_set_up, metrics, cv, pc, mi, fold,
                   fold_scores, call, raised, ncompare, out, calls, wfold, wtmp>>
    /\ UNCHANGED <<regVars, hsVars>>

\* pd.concat([self.scores_df, new_row], ignore_index=True): the worker reads
\* the table the attribute holds at this moment.
WorkerConcat(w) ==
    /\ wpc[w] = "concat"
    /\ wtmp' = [wtmp EXCEPT ![w] = scores_df]
    /\ wpc' = [wpc EXCEPT ![w] = "assign"]
    /\ UNCHANGED <<aeVars, regVars, hsVars, wfold, wscores, wk>>

\* self.scores_df = <result of pd.concat>: the attribute is rebound to the
\* table the worker read plus its row; then the next row, the next fold, or
\* the end of the worker.
WorkerAssign(w) ==
    /\ wpc[w] = "assign"
    /\ scores_df' = wtmp[w] \o SubSeq(NewRows(models[w].name, wfold[w], wscores[w]),
                                      wk[w], wk[w])
    /\ wtmp' = [wtmp EXCEPT ![w] = <<>>]
    /\ IF wk[w] < Len(wscores[w])
       THEN /\ wk' = [wk EXCEPT ![w] = @ + 1]
            /\ wpc' = [wpc EXCEPT ![w] = "concat"]
            /\ UNCHANGED <<wfold, wscores>>
       ELSE /\ wk' = [wk EXCEPT ![w] = 1]
            /\ wscores' = [wscores EXCEPT ![w] = <<>>]
            /\ IF wfold[w] + 1 < cv
               THEN /\ wfold' = [wfold EXCEPT ![w] = @ + 1]
                    /\ wpc' = [wpc EXCEPT ![w] = "score_fold"]
               ELSE /\ wpc' = [wpc EXCEPT ![w] = "done"]
                    /\ UNCHANGED wfold
    /\ UNCHANGED <<X, y, is_set_up, predictions_data, models, metrics, cv, pc, mi,
                   fold, fold_scores, call, raised, ncompare, out, calls>>
    /\ UNCHANGED <<regVars, hsVars>>

NextConcurrent ==
    \E w \in Workers : WorkerScoreFold(w) \/ WorkerConcat(w) \/ WorkerAssign(w)

SpecConcurrent == InitConcurrent /\ [][NextConcurrent]_vars

(***************************************************************************)
(* ModelRegistry                                                           *)
(***************************************************************************)
\* A Python dict is a sequence of [k, v] items in insertion order, keys unique.
Keys(d) == {d[i].k : i \in 1..Len(d)}

Values(d) == {d[i].v : i \in 1..Len(d)}

\* d[k]
Get(d, k) == d[CHOOSE i \in 1..Len(d) : d[i].k = k].v

\* d[k] = v: an existing key keeps its position.
Put(d, k, v) ==
    IF k \in Keys(d)
    THEN [i \in 1..Len(d) |-> IF d[i].k = k THEN [k |-> k, v |-> v] ELSE d[i]]
    ELSE Append(d, [k |-> k, v |-> v])

\* The model classes and the names they are registered under.
Classes == {"RandomForest", "GaussianProcessSk"}

LongNames == {"RandomForest", "GaussianProcessSk"}

\* get_short_model_name(model): a function of the model's class alone.
get_short_model_name(cls) ==
    IF cls = "RandomForest" THEN "rf" ELSE "gps"

\* The strings a caller passes as entries of model_subset.
SubsetEntries == {"RandomForest", "rf", "gps", "nope"}

\* The model_subset arguments: None, a string, a list of strings, or some
\* other object (a tuple).
Subsets ==
    {[type |-> "None", value |-> <<>>]}
    \cup {[type |-> "str", value |-> <<e>>] : e \in SubsetEntries}
    \cup {[type |-> "list", value |-> l] :
            l \in UNION {[1..n -> SubsetEntries] : n \in 1..MaxSubset}}
    \cup {[type |-> "tuple", value |-> <<"rf">>]}

\* register_model(model_name, model_class, is_core)
register_model(name, cls, is_core) ==
    /\ is_core => Len(core_model_names) < MaxCore
    /\ reg_models' = Put(reg_models, name, cls)
    /\ core_model_names' =
         IF is_core THEN Append(core_model_names, name) ELSE core_model_names
    /\ reg_ret' = NoReturn
    /\ UNCHANGED <<aeVars, hsVars, cwVars>>

\* The dict comprehension at the top of get_model_names.
ShortNames(d) ==
    [i \in 1..Len(d) |-> [k |-> d[i].k, v |-> get_short_model_name(d[i].v)]]

\* The check that accepts a subset when any one of its entries is known.
AnyNameValid(model_names, subset) ==
    \E i \in 1..Len(subset) :
        subset[i] \in Keys(model_names) \/ subset[i] \in Values(model_names)

\* The all(...) check of get_model_names: every entry is a key (long name) or
\* a value (short name) of model_names.
AllNamesValid(model_names, subset) ==
    \A i \in 1..Len(subset) :
        subset[i] \in Keys(model_names) \/ subset[i] \in Values(model_names)

Elems(q) == {q[i] : i \in 1..Len(q)}

\* get_model_names(model_subset): [raises, names].
get_model_names(model_subset) ==
    LET model_names == ShortNames(reg_models)
        \* a string is converted to a one-element list
        subset == model_subset.value
    IN  IF model_subset.type = "None"
        THEN [raises |-> FALSE, names |-> model_names]
        ELSE IF model_subset.type \notin {"str", "list"}
        THEN [raises |-> TRUE, names |-> <<>>]
        ELSE IF ~AllNamesValid(model_names, subset)
        THEN [raises |-> TRUE, names |-> <<>>]
        ELSE [raises |-> FALSE,
              names |-> SelectSeq(model_names,
                          LAMBDA kv : kv.k \in Elems(subset) \/ kv.v \in Elems(subset))]

\* get_core_models()
get_core_models ==
    [i \in 1..Len(core_model_names) |-> Get(reg_models, core_model_names[i])]

\* get_models(model_subset): the value is the list of constructed estimators,
\* each given by its class.
get_models(model_subset) ==
    /\ reg_ret' =
         IF model_subset.type = "None"
         THEN [status |-> "ok", subset |-> model_subset, value |-> get_core_models]
         ELSE LET r == get_model_names(model_subset)
              IN  IF r.raises
                  THEN [status |-> "error", subset |-> model_subset, value |-> <<>>]
                  ELSE [status |-> "ok", subset |-> model_subset,
                        value |-> [i \in 1..Len(r.names) |->
                                      Get(reg_models, r.names[i].k)]]
    /\ UNCHANGED <<reg_models, core_model_names>>
    /\ UNCHANGED <<aeVars, hsVars, cwVars>>

NextRegistry ==
    \/ \E name \in LongNames, cls \in Classes, is_core \in BOOLEAN :
          register_model(name, cls, is_core)
    \/ \E model_subset \in Subsets : get_models(model_subset)

SpecRegistry == Init /\ [][NextRegistry]_vars

(***************************************************************************)
(* HyperparamSearch                                                        *)
(***************************************************************************)
\* A parameter name is held as its "__"-separated segments; a key that is not
\* a str has type "int".
StrKey(segs) == [type |-> "str", segs |-> segs]

\* The values a grid maps a key to: a list of settings, or another object
\* (a distribution).
ListOf(items) == [type |-> "list", items |-> items]

GridItems ==
    { [k |-> StrKey(<<"model", "degree">>), v |-> ListOf({1, 2})],
      [k |-> StrKey(<<"model", "bogus">>),  v |-> ListOf({2})],
      [k |-> StrKey(<<"bogus">>),           v |-> ListOf({2})],
      [k |-> StrKey(<<"degree">>),          v |-> ListOf({2})],
      [k |-> [type |-> "int", segs |-> <<>>], v |-> ListOf({2})],
      [k |-> StrKey(<<"model", "kernel">>), v |-> [type |-> "dist", items |-> {2}]] }

\* The custom param_grid arguments: dicts of up to MaxGridKeys items with
\* distinct keys, and a list of dicts.
ParamGrids ==
    {[type |-> "dict", items |-> d] :
        d \in {q \in UNION {[1..n -> GridItems] : n \in 0..MaxGridKeys} :
                 \A i, j \in 1..Len(q) : i # j => q[i].k # q[j].k}}
    \cup {[type |-> "list", items |-> <<>>]}

\* What model.named_steps["model"].get_grid_params() can return.
EstimatorGrids ==
    { [type |-> "dict",
       items |-> <<[k |-> StrKey(<<"model", "degree">>), v |-> ListOf({1, 2})]>>],
      [type |-> "dict",
       items |-> <<[k |-> StrKey(<<"kernel">>), v |-> ListOf({1, 2})]>>] }

\* key.startswith("model__")
startswith_model(key) == Len(key.segs) >= 2 /\ key.segs[1] = "model"

\* check_param_grid(param_grid, model): "ok" when it returns param_grid, else
\* the exception it raises.
check_param_grid(param_grid) ==
    IF param_grid.type # "dict" THEN "TypeError"
    ELSE IF \E i \in 1..Len(param_grid.items) :
                \/ param_grid.items[i].k.type # "str"
                \/ param_grid.items[i].v.type # "list"
    THEN "TypeError"
    ELSE IF \E i \in 1..Len(param_grid.items) :
                /\ startswith_model(param_grid.items[i].k)
                /\ param_grid.items[i].k.segs[2] \notin DOMAIN model_params
    THEN "ValueError"
    ELSE "ok"

\* The parameter names RandomizedSearchCV can set on the pipeline.
PipelineParam(key) ==
    /\ key.type = "str"
    /\ Len(key.segs) = 2
    /\ key.segs[1] = "model"
    /\ key.segs[2] \in DOMAIN model_params

\* The configurations a search over the grid can report as best_params_.
Candidates(grid) ==
    {c \in [1..Len(grid.items) -> [k : {it.k : it \in GridItems \cup
                                         UNION {Elems(g.items) : g \in EstimatorGrids}},
                                   v : {1, 2}]] :
        \A i \in 1..Len(grid.items) :
            c[i].k = grid.items[i].k /\ c[i].v \in grid.items[i].v.items}

LogRecord(level, text) == [level |-> level, model |-> "RBF", text |-> text]

\* The try block of search(): the outcome of obtaining/checking the grid and
\* of the underlying fit. grid_or_exc is what get_grid_params() does, fit_exc
\* whether RandomizedSearchCV.fit raises, best the best_params_ it reports.
TryBlock(param_grid, grid_or_exc, fit_exc, best) ==
    LET use_default == param_grid.type = "None"
        checked == IF use_default THEN "ok" ELSE check_param_grid(param_grid)
        grid == IF use_default THEN grid_or_exc ELSE param_grid
    IN  IF use_default /\ grid_or_exc.type = "raise"
        THEN [cause |-> "get_grid_params", exc |-> "GridError", fit_started |-> FALSE,
              best |-> <<>>]
        ELSE IF checked # "ok"
        THEN [cause |-> "check_param_grid", exc |-> checked, fit_started |-> FALSE,
              best |-> <<>>]
        ELSE IF fit_exc \/ \E i \in 1..Len(grid.items) : ~PipelineParam(grid.items[i].k)
        THEN [cause |-> "fit", exc |-> "FitError", fit_started |-> TRUE, best |-> <<>>]
        ELSE [cause |-> "none", exc |-> "none", fit_started |-> TRUE, best |-> best]

\* search() whose except clause logs the error and returns the model.
search_swallowing(param_grid, grid_or_exc, fit_exc, best) ==
    LET t == TryBlock(param_grid, grid_or_exc, fit_exc, best)
        start == <<LogRecord("info", "Performing grid search")>>
    IN  IF ~logger
        THEN [status |-> "raised", cause |-> "logger", exc |-> "AttributeError",
              fit_started |-> FALSE, log |-> <<>>, best_params |-> best_params]
        ELSE IF t.cause # "none"
        THEN [status |-> "ok", cause |-> t.cause, exc |-> "none",
              fit_started |-> t.fit_started,
              log |-> Append(start, LogRecord("error", "Error during grid search")),
              best_params |-> best_params]
        ELSE [status |-> "ok", cause |-> "none", exc |-> "none",
              fit_started |-> TRUE,
              log |-> Append(start, LogRecord("info", "Best parameters")),
              best_params |-> t.best]

\* search(model, param_grid): the outcome of the call and the values it leaves
\* in self.best_params and the log.
search(param_grid, grid_or_exc, fit_exc, best) ==
    LET t == TryBlock(param_grid, grid_or_exc, fit_exc, best)
        start == <<LogRecord("info", "Performing grid search")>>
    IN  IF ~logger
        THEN \* self.logger.info on None, before the try block
             [status |-> "raised", cause |-> "logger", exc |-> "AttributeError",
              fit_started |-> FALSE, log |-> <<>>, best_params |-> best_params]
        ELSE IF t.cause # "none"
        THEN \* except Exception: logger.error(...); raise
             [status |-> "raised", cause |-> t.cause, exc |-> t.exc,
              fit_started |-> t.fit_started,
              log |-> Append(start, LogRecord("error", "Error during grid search")),
              best_params |-> best_params]
        ELSE [status |-> "ok", cause |-> "none", exc |-> "none",
              fit_started |-> TRUE,
              log |-> Append(start, LogRecord("info", "Best parameters")),
              best_params |-> t.best]

NoGrid == [type |-> "None", items |-> <<>>]

\* One call of search(model, param_grid). The estimator handed to
\* RandomizedSearchCV is cloned by it: model_params is never assigned.
Search(param_grid, grid_or_exc, fit_exc, best) ==
    /\ LET r == search(param_grid, grid_or_exc, fit_exc, best)
       IN  /\ best_params' = r.best_params
           /\ log' = r.log
           /\ search_ret' = [status |-> r.status, cause |-> r.cause, exc |-> r.exc,
                             fit_started |-> r.fit_started, param_grid |-> param_grid]
    /\ UNCHANGED <<logger, model_params>>
    /\ UNCHANGED <<aeVars, regVars, cwVars>>

\* search(model) with param_grid=None.
SearchDefault ==
    \E g \in EstimatorGrids \cup {[type |-> "raise", items |-> <<>>]},
       fit_exc \in BOOLEAN :
        \E best \in (IF g.type = "dict" THEN Candidates(g) ELSE {<<>>}) :
            Search(NoGrid, g, fit_exc, best)

\* search(model, param_grid) with a custom grid.
SearchCustom ==
    \E g \in ParamGrids, fit_exc \in BOOLEAN :
        \E best \in (IF check_param_grid(g) = "ok" THEN Candidates(g) ELSE {<<>>}) :
            Search(g, NoGrid, fit_exc, best)

NextSearch == SearchDefault \/ SearchCustom

\* A HyperparamSearch object constructed with or without a logger.
InitAnyLogger ==
    InitAutoEmulate /\ InitRegistry /\ InitWorkers /\ \E lg \in BOOLEAN : InitSearch(lg)

SpecSearch == InitAnyLogger /\ [][NextSearch]_vars

Next ==
    \/ \E Xa \in Arrays, ya \in Arrays : Setup(Xa, ya)
    \/ CompareCall
    \/ ScoreModelEnter
    \/ TrainModel
    \/ TrainModelRaises
    \/ EvaluateModel
    \/ EvaluateModelRaises
    \/ StorePredictions
    \/ PredictRaises
    \/ AppendScores
    \/ \E m \in QueryModels : PrintScores(m)
    \/ \E m \in QueryModels : PrintCvResults(m)

Spec == Init /\ [][Next]_vars

(***************************************************************************)
(* Properties of AutoEmulate                                               *)
(***************************************************************************)
\* The table one complete compare() run number `run` produces by itself: one
\* row per (model, fold, metric), models in self.models order.
RunTable(run) ==
    LET K == cv
        L == Len(metrics)
    IN  [i \in 1..(Len(models) * K * L) |->
            LET m == ((i - 1) \div (K * L)) + 1
                f == ((i - 1) \div L) % K
                k == ((i - 1) % L) + 1
                est == [name |-> models[m].name, fitted |-> [run |-> run, fold |-> f]]
            IN  [model |-> models[m].name, metric |-> metrics[k], fold |-> f,
                 score |-> Score(est, TestSplit(f), metrics[k])]]

\* A compare() call has returned normally.
CompareReturned ==
    /\ pc = "idle"
    /\ call.op = "compare"
    /\ raised = NoError
    /\ ncompare >= 1

\* C1: re-running compare() resets the score table: when the second compare()
\* call returns, scores_df holds exactly the rows of that second run, one per
\* (model, metric, fold), and not the rows of the earlier run as well.
C1_RerunResetsTable ==
    (CompareReturned /\ ncompare = 2) => scores_df = RunTable(2)

\* The rows of table df for model name, fold f and metric k.
RowsOf(df, name, f, k) ==
    {i \in 1..Len(df) : df[i].model = name /\ df[i].fold = f /\ df[i].metric = k}

\* Position of the model called name in self.models (0 when absent).
ModelIndex(name) ==
    IF \E i \in 1..Len(models) : models[i].name = name
    THEN CHOOSE i \in 1..Len(models) : models[i].name = name
    ELSE 0

\* C2: when a model's fit or predict raises during a compare() sweep, the sweep
\* continues: once the call is over, every model after the failing one in
\* self.models has a row in scores_df for every fold and metric.
C2_SweepContinuesAfterFailure ==
    (pc = "idle" /\ call.op = "compare"
        /\ raised.kind \in {"FitError", "PredictError"})
    => \A m \in (ModelIndex(raised.model) + 1)..Len(models) :
         \A f \in 0..(cv - 1) : \A k \in 1..Len(metrics) :
            RowsOf(scores_df, models[m].name, f, metrics[k]) # {}

\* The rows of df that belong to models other than name.
OtherRows(df, name) == SelectSeq(df, LAMBDA r : r.model # name)

\* C3: when a metric raises while a fold of model X is scored, every row of
\* scores_df and every entry of predictions_data that belongs to another model
\* is still there, unchanged, after the failure.
C3_MetricFailureKeepsOtherModels ==
    [][(pc = "eval" /\ raised'.kind = "MetricError")
        => /\ OtherRows(scores_df', model_name) = OtherRows(scores_df, model_name)
           /\ \A m \in DOMAIN predictions_data \ {model_name} :
                /\ m \in DOMAIN predictions_data'
                /\ predictions_data'[m] = predictions_data[m]]_vars

\* C3 witness: a metric failed for one model while another model had rows and
\* predictions in the stores.
C3_Witness ==
    /\ raised.kind = "MetricError"
    /\ \E i \in 1..Len(scores_df) : scores_df[i].model # raised.model
    /\ \E m \in DOMAIN predictions_data :
          m # raised.model /\ DOMAIN predictions_data[m] # {}

\* The inputs setup() must reject: different sample counts, or a NaN.
BadInput(Xa, ya) == Xa.n # ya.n \/ Xa.kind = "nan" \/ ya.kind = "nan"

\* C4: setup(X, y) with mismatched sample counts or a NaN raises before any
\* model is constructed and leaves X, y, models, cv and is_set_up (and the
\* stores) as they were.
C4_SetupValidatesFirst ==
    [][(call'.op = "setup" /\ BadInput(call'.X, call'.y))
        => /\ raised'.kind = "ValueError"
           /\ UNCHANGED <<X, y, models, metrics, cv, is_set_up, scores_df,
                          predictions_data>>]_vars

\* C4 witness: a setup() call with bad data was rejected on an object that was
\* never set up.
C4_Witness ==
    /\ call.op = "setup"
    /\ BadInput(call.X, call.y)
    /\ raised.kind = "ValueError"
    /\ ~is_set_up
    /\ X = None

\* The folds of model m whose r2 score in df is the maximal r2 score of m.
MaxR2Folds(df, m) ==
    LET rows == {i \in 1..Len(df) : df[i].metric = "r2" /\ df[i].model = m}
    IN  {df[i].fold : i \in {j \in rows : \A k \in rows : df[k].score <= df[j].score}}

\* C11: the best fold plot_predictions selects for a model is the fold whose r2
\* score is maximal, the lowest such fold on ties, after any number of
\* compare() calls.
C11_BestFoldIsLowestArgmax ==
    pc = "idle"
    => \A m \in DOMAIN best_folds(scores_df) :
          /\ best_folds(scores_df)[m] \in MaxR2Folds(scores_df, m)
          /\ \A f \in MaxR2Folds(scores_df, m) : best_folds(scores_df)[m] <= f

\* The names of the known models: those of self.models.
KnownModels == {models[i].name : i \in 1..Len(models)}

\* The last call was a per-model score query for a name that is not a known
\* model.
UnknownModelQuery ==
    /\ call.op \in {"print_scores", "_print_cv_results"}
    /\ call.model # NoModel
    /\ call.model \notin KnownModels

\* C12: a per-model score query (print_scores(model) or _print_cv_results with
\* a model name) for a name that is not among the known models ends with an
\* error that lists the known model names, and prints nothing.
C12_UnknownModelQueryFails ==
    UnknownModelQuery
    => /\ raised.kind # "none"
       /\ raised.msg = NotFoundMsg
       /\ {raised.names[i] : i \in 1..Len(raised.names)} = KnownModels
       /\ out = <<>>

\* C13: when the first compare() on a freshly set-up object returns without
\* error, scores_df holds exactly one row for every (model, metric, fold) with
\* the model in self.models, the metric in self.metrics and the fold in
\* 0..k-1, no other row, and the score of each row is the one computed on the
\* held-out rows of the fold its fold field names, by the model fitted for
\* that fold.
C13_OneRecordPerCombination ==
    (CompareReturned /\ ncompare = 1)
    => /\ \A m \in 1..Len(models), k \in 1..Len(metrics), f \in 0..(cv - 1) :
             Cardinality(RowsOf(scores_df, models[m].name, f, metrics[k])) = 1
       /\ Len(scores_df) = Len(models) * Len(metrics) * cv
       /\ \A i \in 1..Len(scores_df) :
             LET r == scores_df[i]
                 est == [name |-> r.model, fitted |-> [run |-> 1, fold |-> r.fold]]
             IN  r.score = Score(est, TestSplit(r.fold), r.metric)

C13_Witness ==
    /\ CompareReturned
    /\ ncompare = 1
    /\ Len(scores_df) = NumModels * Folds * Len(METRIC_REGISTRY)

\* C14: predictions_data holds one (y_true, y_pred) entry per (model, fold);
\* the step that stores the predictions of a fold sets the entry of that
\* (model, fold) to the pair of the scoring in progress (the held-out rows of
\* the fold and the prediction of the model fitted in this run), also when an
\* earlier run had stored an entry there, and no step changes or removes any
\* other entry.
C14_LatestPairPerModelFold ==
    [][/\ (pc = "predict" /\ pc' = "append")
          => /\ model_name \in DOMAIN predictions_data'
             /\ fold \in DOMAIN predictions_data'[model_name]
       /\ \A m \in DOMAIN predictions_data' :
            \A f \in DOMAIN predictions_data'[m] :
               LET e == predictions_data'[m][f]
               IN  IF pc = "predict" /\ pc' = "append" /\ m = model_name /\ f = fold
                   THEN /\ e.y_true = TestSplit(f)
                        /\ e.y_pred = Predict(models[mi], TestSplit(f))
                        /\ e.y_pred.fitted = [run |-> ncompare, fold |-> f]
                   ELSE /\ m \in DOMAIN predictions_data
                        /\ f \in DOMAIN predictions_data[m]
                        /\ e = predictions_data[m][f]
       /\ \A m \in DOMAIN predictions_data :
            /\ m \in DOMAIN predictions_data'
            /\ DOMAIN predictions_data[m] \subseteq DOMAIN predictions_data'[m]]_vars

\* The entry of some (model, fold) that the first compare() had scored (its
\* rows of run 1 are in the table) holds the pair of the second compare().
C14_Witness ==
    \E m \in DOMAIN predictions_data :
        \E f \in DOMAIN predictions_data[m] :
            /\ \E i \in 1..Len(scores_df) :
                  /\ scores_df[i].model = m
                  /\ scores_df[i].fold = f
                  /\ scores_df[i].metric = "rmse"
                  /\ scores_df[i].score = Metric("rmse", TestSplit(f),
                         Predict([name |-> m, fitted |-> [run |-> 1, fold |-> f]],
                                 TestSplit(f)))
            /\ predictions_data[m][f].y_pred.fitted.run = 2
            /\ predictions_data[m][f].y_pred.model = m
            /\ predictions_data[m][f].y_true = TestSplit(f)

\* C15: estimators are not shared across folds: whenever a fold's fit is about
\* to start, the estimator to be fitted is in its pre-fit configuration and
\* carries no fitted state of a previous fold.
C15_FreshEstimatorPerFold ==
    pc = "fit" => models[mi].fitted = NotFitted

\* C16: appending to the score table is safe under concurrency: when the
\* workers scoring the models concurrently have all finished, every row
\* produced by every worker is in scores_df.
C16_NoAppendLost ==
    (\A w \in Workers : wpc[w] = "done")
    => \A w \in Workers, f \in 0..(cv - 1), k \in 1..Len(metrics) :
          RowsOf(scores_df, models[w].name, f, metrics[k]) # {}

\* C17: when the first compare() sweep is aborted by an exception while a
\* model is being evaluated, the rows and predictions of the models completed
\* before it remain, and the model in flight leaves no partial writes:
\* scores_df and predictions_data hold either all of its folds or none.
C17_AbortLeavesNoPartialWrites ==
    (/\ pc = "idle"
     /\ call.op = "compare"
     /\ raised.kind \in {"FitError", "MetricError", "PredictError"}
     /\ ncompare = 1)
    => LET m == raised.model
           scored == {f \in 0..(cv - 1) :
                        \E i \in 1..Len(scores_df) :
                            scores_df[i].model = m /\ scores_df[i].fold = f}
           stored == IF m \in DOMAIN predictions_data
                     THEN DOMAIN predictions_data[m]
                     ELSE {}
       IN  /\ scored \in {{}, 0..(cv - 1)}
           /\ stored \in {{}, 0..(cv - 1)}
           /\ \A j \in 1..(ModelIndex(m) - 1), f \in 0..(cv - 1) :
                 /\ f \in DOMAIN predictions_data[models[j].name]
                 /\ \A k \in 1..Len(metrics) :
                       RowsOf(scores_df, models[j].name, f, metrics[k]) # {}

\* The array holds a NaN or an infinity.
NonFinite(a) == a.kind \in {"nan", "inf"}

\* C18: setup(X, y) rejects every input in which X or y holds a non-finite
\* value (NaN or an infinity): the call raises and does not set is_set_up.
C18_SetupRejectsNonFinite ==
    [][(call'.op = "setup" /\ (NonFinite(call'.X) \/ NonFinite(call'.y)))
       => /\ raised'.kind # "none"
          /\ is_set_up' = is_set_up]_vars

\* C19: within one fold the estimator is fitted, then asked once to predict
\* the fold's test rows, and the metrics are computed from that prediction:
\* when the fold's rows are about to be appended the calls made on the
\* estimator are fit followed by one predict, and every score of the fold is
\* the metric of the y_pred stored in predictions_data for (model, fold).
C19_PredictOnceBeforeMetrics ==
    pc = "append"
    => /\ calls = <<"fit", "predict">>
       /\ \A k \in 1..Len(fold_scores) :
             fold_scores[k].score =
                Metric(fold_scores[k].metric,
                       predictions_data[model_name][fold].y_true,
                       predictions_data[model_name][fold].y_pred)

\* C20: compare() on an object whose is_set_up is False raises RuntimeError,
\* starts no scoring and leaves scores_df, predictions_data and the models
\* unchanged; and is_set_up, once True, stays True through every later
\* operation, a failing setup() included.
C20_CompareRequiresSetup ==
    [][/\ (call'.op = "compare" /\ ~is_set_up)
          => /\ raised'.kind = "RuntimeError"
             /\ pc' = "idle"
             /\ ~is_set_up'
             /\ UNCHANGED <<scores_df, predictions_data, models>>
       /\ is_set_up => is_set_up']_vars

\* compare() was called before any setup() succeeded and raised RuntimeError,
\* with the stores still empty.
C20_Witness ==
    /\ call.op = "compare"
    /\ raised.kind = "RuntimeError"
    /\ ~is_set_up
    /\ scores_df = <<>>
    /\ predictions_data = <<>>

\* C21: in every reachable state, the states left by a fit, predict or metric
\* exception in the middle of a sweep and those after repeated compare()
\* calls included, every (model, fold) that has a row in scores_df has an
\* entry in predictions_data.
C21_ScoredFoldsHavePredictions ==
    \A i \in 1..Len(scores_df) :
        /\ scores_df[i].model \in DOMAIN predictions_data
        /\ scores_df[i].fold \in DOMAIN predictions_data[scores_df[i].model]

\* A second compare() was aborted by an exception in the middle of a model
\* whose folds the first compare() had scored: the table holds rows and the
\* store holds the entries of those folds.
C21_Witness ==
    /\ pc = "idle"
    /\ call.op = "compare"
    /\ ncompare = 2
    /\ raised.kind \in {"FitError", "MetricError", "PredictError"}
    /\ \E i \in 1..Len(scores_df) :
          /\ scores_df[i].model = raised.model
          /\ scores_df[i].fold = raised.fold
          /\ raised.fold \in DOMAIN predictions_data[raised.model]

(***************************************************************************)
(* Properties of ModelRegistry                                             *)
(***************************************************************************)
\* The distinct elements of q in order of first occurrence.
RECURSIVE Distinct(_)
Distinct(q) ==
    IF q = <<>> THEN <<>>
    ELSE LET front == SubSeq(q, 1, Len(q) - 1)
             last  == q[Len(q)]
         IN  IF last \in Elems(front) THEN Distinct(front)
             ELSE Append(Distinct(front), last)

\* C5: get_models(None) returns exactly the core models: one instance per
\* distinct name registered as core, none twice, in insertion order.
C5_CoreModelsOncePerName ==
    (reg_ret.status = "ok" /\ reg_ret.subset.type = "None")
    => LET core == Distinct(core_model_names)
       IN  reg_ret.value = [i \in 1..Len(core) |-> Get(reg_models, core[i])]

\* The classes a name designates: of the model registered under it as long
\* name, and of the models whose short name it is.
Designated(name) ==
    {reg_models[i].v : i \in {j \in 1..Len(reg_models) :
        \/ reg_models[j].k = name
        \/ get_short_model_name(reg_models[j].v) = name}}

\* C6: get_models(name) with one registered long name or short name returns a
\* list of exactly one estimator, an instance of the model the name designates.
C6_SingleNameSingleModel ==
    (reg_ret.status # "none" /\ reg_ret.subset.type = "str"
        /\ Designated(reg_ret.subset.value[1]) # {})
    => /\ reg_ret.status = "ok"
       /\ Len(reg_ret.value) = 1
       /\ reg_ret.value[1] \in Designated(reg_ret.subset.value[1])

\* An entry that is neither a registered long name nor a short name of a
\* registered model.
Unknown(name) == Designated(name) = {}

\* C7: get_models(subset) fails and returns no models whenever some entry of
\* subset is unknown, even when other entries are valid, and the registry is
\* left unchanged.
C7_UnknownEntryFails ==
    [][(reg_ret'.status # "none" /\ reg_ret'.subset.type \in {"str", "list"}
          /\ \E i \in 1..Len(reg_ret'.subset.value) :
                Unknown(reg_ret'.subset.value[i]))
        => /\ reg_ret'.status = "error"
           /\ reg_ret'.value = <<>>
           /\ UNCHANGED <<reg_models, core_model_names>>]_vars

\* C7 witness: a failed call whose subset held a valid and an unknown entry.
C7_Witness ==
    /\ reg_ret.status = "error"
    /\ reg_ret.subset.type = "list"
    /\ \E i, j \in 1..Len(reg_ret.subset.value) :
          /\ Unknown(reg_ret.subset.value[i])
          /\ ~Unknown(reg_ret.subset.value[j])

(***************************************************************************)
(* Properties of HyperparamSearch                                          *)
(***************************************************************************)
\* C8: when search(model) completes without error, the hyperparameters of the
\* estimator it was given equal the search's best_params.
C8_BestParamsCommitted ==
    search_ret.status = "ok"
    => \A i \in 1..Len(best_params) :
          model_params[best_params[i].k.segs[2]] = best_params[i].v

\* A key that is neither a parameter of the estimator nor a model__<param> key
\* naming one.
Unrecognized(key) ==
    ~ /\ key.type = "str"
      /\ \/ Len(key.segs) = 1 /\ key.segs[1] \in ModelParamNames
         \/ Len(key.segs) = 2 /\ key.segs[1] = "model"
                              /\ key.segs[2] \in ModelParamNames

\* C9: a custom param_grid with an unrecognized key makes search() fail in
\* check_param_grid, before RandomizedSearchCV.fit is started.
C9_UnrecognizedKeyFailsBeforeSearch ==
    (search_ret.status # "none" /\ logger
        /\ search_ret.param_grid.type = "dict"
        /\ \E i \in 1..Len(search_ret.param_grid.items) :
              Unrecognized(search_ret.param_grid.items[i].k))
    => /\ search_ret.status = "raised"
       /\ search_ret.cause = "check_param_grid"
       /\ ~search_ret.fit_started

\* The exceptions each part of the try block raises.
ExceptionsOf(cause) ==
    IF cause = "get_grid_params" THEN {"GridError"}
    ELSE IF cause = "check_param_grid" THEN {"TypeError", "ValueError"}
    ELSE {"FitError"}

\* C10: a failure while obtaining or checking the parameter space or in the
\* underlying fit is never swallowed: search() logs an error naming the model,
\* re-raises the exception instead of returning, and best_params keeps the
\* value it had before the call.
C10_SearchFailureReraised ==
    [][(search_ret'.cause \in {"get_grid_params", "check_param_grid", "fit"})
        => /\ search_ret'.status = "raised"
           /\ search_ret'.exc \in ExceptionsOf(search_ret'.cause)
           /\ log' # <<>>
           /\ log'[Len(log')].level = "error"
           /\ log'[Len(log')].model = "RBF"
           /\ best_params' = best_params]_vars

\* C10 witness: the underlying fit failed in a call made after an earlier
\* search had stored its best_params.
C10_Witness ==
    /\ search_ret.status = "raised"
    /\ search_ret.cause = "fit"
    /\ best_params # <<>>
    /\ log # <<>>
    /\ log[Len(log)].level = "error"

====
